---- MODULE Spec2Model ----
(***************************************************************************)
(* unirest-go: the HTTPClient request builder (clone-or-mutate protocol),  *)
(* ParseRequest / Send and the Response wrapper.                           *)
(*                                                                         *)
(* Builders live in a heap of HTTPClient structs; a *HTTPClient is an      *)
(* index into it.  The three maps of a struct are owned by that struct     *)
(* alone (New makes them, Clone deep-copies them), so they are kept inside *)
(* the record; the only alias the code ever creates is req.Header, which   *)
(* ParseRequest sets to c.header.  The files slice is a Go slice header    *)
(* (array, len, cap) over a heap of backing arrays, because Clone copies   *)
(* the header and so shares the array.  Text the code inspects byte by     *)
(* byte (url, path, header names) is a sequence of one-character strings.  *)
(***************************************************************************)
EXTENDS Integers, Sequences, FiniteSets, TLC

VARIABLES heap, arrays, ghost, req, resps, out, calls, last, pre, preArrays, steps

vars == <<heap, arrays, ghost, req, resps, out, calls, last, pre, preArrays, steps>>

-----------------------------------------------------------------------------
(* Bounds of the exploration.                                              *)

MaxObj == 3
MaxSteps == 3
MaxObjFiles == 6
MaxStepsFiles == 7
MaxObjAdd == 4
MaxStepsAdd == 3
MaxObjPath == 3
MaxStepsPath == 3
MaxSegLen == 3
MaxObjBody == 4
MaxStepsBody == 4
MaxObjRequest == 3
MaxStepsRequest == 5

-----------------------------------------------------------------------------
(* Text helpers.                                                           *)

LowerLetters == <<"a","b","c","d","e","f","g","h","i","j","k","l","m",
                  "n","o","p","q","r","s","t","u","v","w","x","y","z">>
UpperLetters == <<"A","B","C","D","E","F","G","H","I","J","K","L","M",
                  "N","O","P","Q","R","S","T","U","V","W","X","Y","Z">>

LowerSet == {LowerLetters[i] : i \in 1..26}
UpperSet == {UpperLetters[i] : i \in 1..26}
ToUpperMap == [ch \in LowerSet |-> UpperLetters[CHOOSE i \in 1..26 : LowerLetters[i] = ch]]
ToLowerMap == [ch \in UpperSet |-> LowerLetters[CHOOSE i \in 1..26 : UpperLetters[i] = ch]]

ToUpper(ch) == IF ch \in LowerSet THEN ToUpperMap[ch] ELSE ch

ToLower(ch) == IF ch \in UpperSet THEN ToLowerMap[ch] ELSE ch

\* textproto.CanonicalMIMEHeaderKey, which http.Header.Add/Set/Del apply to
\* the key: the first letter and every letter after '-' upper case, every
\* other letter lower case (all names used here consist of token bytes).
CanonicalKey(k) ==
    [i \in 1..Len(k) |-> IF i = 1 \/ k[i-1] = "-" THEN ToUpper(k[i]) ELSE ToLower(k[i])]

RECURSIVE TrimRight(_)
\* strings.TrimRight(s, "/")
TrimRight(s) ==
    IF s # <<>> /\ s[Len(s)] = "/" THEN TrimRight(SubSeq(s, 1, Len(s) - 1)) ELSE s

ContentTypeKey == <<"C","o","n","t","e","n","t","-","T","y","p","e">>
UserAgentKey == <<"U","s","e","r","-","A","g","e","n","t">>
AuthorizationKey == <<"A","u","t","h","o","r","i","z","a","t","i","o","n">>

-----------------------------------------------------------------------------
(* map[string][]string: a function from the keys present to value lists.   *)

EmptyMap == <<>>

\* an Add that assigns the key instead of appending to it
ValuesAssign(m, k, v) == [x \in DOMAIN m \cup {k} |-> IF x = k THEN <<v>> ELSE m[x]]

\* url.Values.Add: v[key] = append(v[key], value)
ValuesAdd(m, k, v) ==
    IF k \in DOMAIN m THEN [m EXCEPT ![k] = Append(@, v)]
    ELSE [x \in DOMAIN m \cup {k} |-> IF x = k THEN <<v>> ELSE m[x]]

\* http.Header.Add: the key is canonicalised, then appended to
HeaderAdd(h, k, v) == ValuesAdd(h, CanonicalKey(k), v)

\* http.Header.Set: the key is canonicalised, its values replaced by [v]
HeaderSet(h, k, v) ==
    [x \in DOMAIN h \cup {CanonicalKey(k)} |-> IF x = CanonicalKey(k) THEN <<v>> ELSE h[x]]

\* http.Header.Del
HeaderDel(h, k) == [x \in DOMAIN h \ {CanonicalKey(k)} |-> h[x]]

\* Header.Get-like read used by the properties: the values under a name
HeaderValues(h, k) == IF k \in DOMAIN h THEN h[k] ELSE <<>>

copyMap(m) == [k \in DOMAIN m |-> [i \in 1..Len(m[k]) |-> m[k][i]]]

-----------------------------------------------------------------------------
(* []byte bodies: <<>> is the nil slice, <<b>> a non-nil slice holding b.   *)

NilBody == <<>>

-----------------------------------------------------------------------------
(* The files slice and its backing arrays.                                 *)

NullFile == [key |-> "", filename |-> "", content |-> ""]

\* make([]*fileField, 0)
EmptySlice == [arr |-> 0, len |-> 0, cap |-> 0]

\* the elements a slice header lets its holder see
SliceElems(arrs, s) == IF s.len = 0 THEN <<>> ELSE SubSeq(arrs[s.arr], 1, s.len)

\* runtime growslice for 8-byte elements below the 256-element threshold:
\* 0 -> 1 -> 2 -> 4 -> 8
GrowCap(cap) == IF cap = 0 THEN 1 ELSE 2 * cap

\* append(s, f): the slice header it returns
AppendSlice(arrs, s, f) ==
    IF s.len < s.cap
    THEN [arr |-> s.arr, len |-> s.len + 1, cap |-> s.cap]
    ELSE [arr |-> Len(arrs) + 1, len |-> s.len + 1, cap |-> GrowCap(s.cap)]

\* append(s, f): the backing arrays after it.  With room left the element
\* is written into the shared array in place; otherwise a larger array is
\* allocated and the visible elements are copied over.
AppendArrays(arrs, s, f) ==
    IF s.len < s.cap
    THEN [arrs EXCEPT ![s.arr] = [@ EXCEPT ![s.len + 1] = f]]
    ELSE Append(arrs, [i \in 1..GrowCap(s.cap) |->
                          IF i <= s.len THEN arrs[s.arr][i]
                          ELSE IF i = s.len + 1 THEN f ELSE NullFile])

-----------------------------------------------------------------------------
(* HTTPClient                                                              *)

New ==
    [query |-> EmptyMap, form |-> EmptyMap, files |-> EmptySlice,
     url |-> <<>>, path |-> <<>>, body |-> NilBody, method |-> "GET",
     header |-> EmptyMap, basicAuth |-> <<"", "">>, makeCopy |-> TRUE]

\* Clone: the struct is copied (so files, body, url, path, method,
\* basicAuth and makeCopy are copied as they are) and the three maps are
\* replaced by deep copies.
Clone(b) ==
    [b EXCEPT !.query = copyMap(b.query),
              !.header = copyMap(b.header),
              !.form = copyMap(b.form)]

\* what a caller holding pointer c reads through it
View(h, arrs, c) ==
    [query |-> h[c].query, form |-> h[c].form, header |-> h[c].header,
     files |-> SliceElems(arrs, h[c].files), url |-> h[c].url,
     path |-> h[c].path, body |-> h[c].body, method |-> h[c].method,
     basicAuth |-> h[c].basicAuth, makeCopy |-> h[c].makeCopy]

Objs == 1..Len(heap)

\* `if c.makeCopy { c = c.Clone() }`: the struct the rest of a mutator works on
Working(c) == IF heap[c].makeCopy THEN Clone(heap[c]) ELSE heap[c]

\* the pointer a mutator returns
Result(c) == IF heap[c].makeCopy THEN Len(heap) + 1 ELSE c

\* a mutator that skips `if c.makeCopy { c = c.Clone() }` and writes through
\* the receiver whatever the flag says
StoreInReceiver(c, b) == [heap EXCEPT ![c] = b]

\* a mutator that clones whatever the flag says
StoreInClone(c, b) == Append(heap, b)

\* the heap once the mutator has written the struct b it worked on
Store(c, b) == IF heap[c].makeCopy THEN Append(heap, b) ELSE [heap EXCEPT ![c] = b]

-----------------------------------------------------------------------------
(* Bookkeeping that is not program state: per builder, what was called on  *)
(* the chain that led to it.                                               *)

\*   from, via    the receiver of the AutoClone or Clone call that returned
\*                this builder, and which of the two it was
\*   adds         the AddQuery/AddHeader/AddFormField calls, in call order
\*   lastMeth     the last call that assigns c.method
\*   lastBody     the last of SetJSONBody/SetRawBody, and typeSince: whether
\*                AddHeader was called for Content-Type after it
\*   hdrOnlyAdds  no call but AddHeader has written the header map
NewGhost == [from |-> 0, via |-> "", adds |-> <<>>, lastMeth |-> "none",
             lastBody |-> "none", typeSince |-> FALSE, hdrOnlyAdds |-> TRUE]

\* the ghost of the builder a mutator returns, given the mutator's own entry g
StoreGhost(c, g) ==
    IF heap[c].makeCopy THEN Append(ghost, [g EXCEPT !.from = 0, !.via = ""])
    ELSE [ghost EXCEPT ![c] = g]

\* every mutator ends the same way: record the call, keep the rest
Finish(op, c, res, arg) ==
    /\ last' = [op |-> op, recv |-> c, res |-> res, arg |-> arg]
    /\ pre' = heap
    /\ preArrays' = arrays
    /\ steps' = steps + 1

Mutated(op, c, arg, b, g) ==
    /\ heap' = Store(c, b)
    /\ ghost' = StoreGhost(c, g)
    /\ Finish(op, c, Result(c), arg)
    /\ UNCHANGED <<req, resps, out, calls>>

-----------------------------------------------------------------------------
(* The mutators.                                                           *)

AutoClone(c, b) ==
    /\ heap' = Append(heap, [Clone(heap[c]) EXCEPT !.makeCopy = b])
    /\ ghost' = Append(ghost, [ghost[c] EXCEPT !.from = c, !.via = "AutoClone"])
    /\ Finish("AutoClone", c, Len(heap) + 1, b)
    /\ UNCHANGED <<arrays, req, resps, out, calls>>

CloneCall(c) ==
    /\ heap' = Append(heap, Clone(heap[c]))
    /\ ghost' = Append(ghost, [ghost[c] EXCEPT !.from = c, !.via = "Clone"])
    /\ Finish("Clone", c, Len(heap) + 1, <<>>)
    /\ UNCHANGED <<arrays, req, resps, out, calls>>

SetURL(c, u) ==
    /\ Mutated("SetURL", c, u, [Working(c) EXCEPT !.url = TrimRight(u)], ghost[c])
    /\ UNCHANGED arrays

\* the text AppendPath adds to c.path for a non-empty argument
Segment(p) == TrimRight(IF p[1] # "/" THEN <<"/">> \o p ELSE p)

AppendPath(c, p) ==
    /\ Mutated("AppendPath", c, p,
               IF p = <<>> THEN Working(c)
               ELSE [Working(c) EXCEPT !.path = @ \o Segment(p)],
               ghost[c])
    /\ UNCHANGED arrays

AddQuery(c, k, v) ==
    /\ Mutated("AddQuery", c, <<k, v>>,
               [Working(c) EXCEPT !.query = ValuesAdd(@, k, v)],
               [ghost[c] EXCEPT !.adds = Append(@, <<"query", k, v>>)])
    /\ UNCHANGED arrays

AddHeader(c, k, v) ==
    /\ Mutated("AddHeader", c, <<k, v>>,
               [Working(c) EXCEPT !.header = HeaderAdd(@, k, v)],
               [ghost[c] EXCEPT !.adds = Append(@, <<"header", k, v>>),
                                !.typeSince = @ \/ CanonicalKey(k) = ContentTypeKey])
    /\ UNCHANGED arrays

\* an AddFormField that leaves the method alone
AddFormFieldKeepsMethod(c, k, v) ==
    /\ Mutated("AddFormField", c, <<k, v>>,
               [Working(c) EXCEPT !.form = ValuesAdd(@, k, v)],
               [ghost[c] EXCEPT !.adds = Append(@, <<"form", k, v>>),
                                !.lastMeth = "AddFormField"])
    /\ UNCHANGED arrays

AddFormField(c, k, v) ==
    /\ Mutated("AddFormField", c, <<k, v>>,
               [Working(c) EXCEPT !.form = ValuesAdd(@, k, v), !.method = "POST"],
               [ghost[c] EXCEPT !.adds = Append(@, <<"form", k, v>>),
                                !.lastMeth = "AddFormField"])
    /\ UNCHANGED arrays

AddFile(c, f) ==
    /\ Mutated("AddFile", c, f,
               [Working(c) EXCEPT !.files = AppendSlice(arrays, @, f), !.method = "POST"],
               [ghost[c] EXCEPT !.lastMeth = "AddFile"])
    /\ arrays' = AppendArrays(arrays, heap[c].files, f)

SetBasicAuth(c, username, password) ==
    /\ Mutated("SetBasicAuth", c, <<username, password>>,
               [Working(c) EXCEPT !.basicAuth = <<username, password>>],
               ghost[c])
    /\ UNCHANGED arrays

SetJSONBody(c, json) ==
    /\ Mutated("SetJSONBody", c, json,
               [Working(c) EXCEPT !.body = json,
                                  !.header = HeaderSet(@, ContentTypeKey, "application/json"),
                                  !.method = "POST"],
               [ghost[c] EXCEPT !.lastMeth = "SetJSONBody", !.lastBody = "json",
                                !.typeSince = FALSE,
                                !.hdrOnlyAdds = FALSE])
    /\ UNCHANGED arrays

\* a SetRawBody that leaves the Content-Type header alone
SetRawBodyKeepsType(c, body) ==
    /\ Mutated("SetRawBody", c, body,
               [Working(c) EXCEPT !.body = body, !.method = "POST"],
               [ghost[c] EXCEPT !.lastMeth = "SetRawBody", !.lastBody = "raw",
                                !.typeSince = FALSE,
                                !.hdrOnlyAdds = FALSE])
    /\ UNCHANGED arrays

SetRawBody(c, body) ==
    /\ Mutated("SetRawBody", c, body,
               [Working(c) EXCEPT !.body = body,
                                  !.method = "POST",
                                  !.header = HeaderDel(@, ContentTypeKey)],
               [ghost[c] EXCEPT !.lastMeth = "SetRawBody", !.lastBody = "raw",
                                !.typeSince = FALSE,
                                !.hdrOnlyAdds = FALSE])
    /\ UNCHANGED arrays

Get(c) ==
    /\ Mutated("Get", c, <<>>, [Working(c) EXCEPT !.method = "GET"],
               [ghost[c] EXCEPT !.lastMeth = "Get"])
    /\ UNCHANGED arrays

Post(c) ==
    /\ Mutated("Post", c, <<>>, [Working(c) EXCEPT !.method = "POST"],
               [ghost[c] EXCEPT !.lastMeth = "Post"])
    /\ UNCHANGED arrays

-----------------------------------------------------------------------------
(* ParseRequest                                                            *)

HexDigits == {"0","1","2","3","4","5","6","7","8","9",
              "a","b","c","d","e","f","A","B","C","D","E","F"}

\* url.Parse on the texts used here: it fails on a leading ':' (missing
\* protocol scheme) and on a '%' that does not start a %XX escape.
URLParseOK(s) ==
    /\ ~(s # <<>> /\ s[1] = ":")
    /\ \A i \in 1..Len(s) :
          s[i] = "%" => /\ i + 2 <= Len(s)
                        /\ s[i+1] \in HexDigits
                        /\ s[i+2] \in HexDigits

\* the keys the model uses for query and form, in the byte order
\* url.Values.Encode sorts them into
SortedKeys == <<"k1", "k2">>

RECURSIVE EncodeFrom(_, _)
\* url.Values.Encode from the i-th sorted key on: per key in sorted order,
\* one key=value pair per value in the order the values were added
EncodeFrom(m, i) ==
    IF i > Len(SortedKeys) THEN <<>>
    ELSE (IF SortedKeys[i] \in DOMAIN m
          THEN [j \in 1..Len(m[SortedKeys[i]]) |-> <<SortedKeys[i], m[SortedKeys[i]][j]>>]
          ELSE <<>>) \o EncodeFrom(m, i + 1)

Encode(m) == EncodeFrom(m, 1)

\* req.SetBasicAuth: "Basic " + base64(username ":" password)
BasicAuthValue(username, password) ==
    CASE username = "u" /\ password = "p" -> "Basic dTpw"
      [] username = "u" /\ password = ""  -> "Basic dTo="
      [] OTHER -> "Basic"

\* the header map after the writes ParseRequest makes before it looks at
\* the url: req.Header is c.header itself, so these are writes to c.header
HeaderAfterAuth(b) ==
    LET h1 == HeaderSet(b.header, UserAgentKey, "Unirest-Go/1.0")
    IN  IF b.basicAuth[1] # ""
        THEN HeaderSet(h1, AuthorizationKey, BasicAuthValue(b.basicAuth[1], b.basicAuth[2]))
        ELSE h1

\* the orders in which `range c.form` may visit the keys
KeyOrders(m) ==
    {o \in [1..Cardinality(DOMAIN m) -> DOMAIN m] :
        \A i, j \in DOMAIN o : i # j => o[i] # o[j]}

RECURSIVE FieldParts(_, _, _)
\* the WriteField parts for the keys order[i..], each key's values in order
FieldParts(m, order, i) ==
    IF i > Len(order) THEN <<>>
    ELSE [j \in 1..Len(m[order[i]]) |->
             [part |-> "field", key |-> order[i], filename |-> "", content |-> m[order[i]][j]]]
         \o FieldParts(m, order, i + 1)

\* the CreateFormFile parts, in attachment order
FileParts(fs) ==
    [i \in 1..Len(fs) |->
        [part |-> "file", key |-> fs[i].key, filename |-> fs[i].filename,
         content |-> fs[i].content]]

\* a conflict test that looks at the files only
MultipleContentTypeFilesOnly(b) == b.body # NilBody /\ b.files.len # 0

\* `c.body != nil && (len(c.files) != 0 || len(c.form) != 0)`
MultipleContentType(b) ==
    b.body # NilBody /\ (b.files.len # 0 \/ DOMAIN b.form # {})

\* bytes.NewReader(data): the bytes and the read position
NewReader(data) == [s |-> data, i |-> 0]

\* (*bytes.Reader).Len: the bytes not yet read
ReaderLen(r) == Len(r.s) - r.i

\* reader, the bytes.Reader behind req.Body, and snapshot, the copy of it
\* that the GetBody closure captured, are meaningful when GetBody is TRUE
NoRequest == [Method |-> "", Header |-> EmptyMap, URL |-> <<>>, RawQuery |-> <<>>,
              Body |-> [kind |-> "none", data |-> <<>>], ContentLength |-> 0,
              GetBody |-> FALSE, reader |-> NewReader(<<>>),
              snapshot |-> NewReader(<<>>), headerOf |-> 0]

\* a branch choice that tries the form fields before the files
BodyBranchFormFirst(b) ==
    IF b.body # NilBody THEN "raw"
    ELSE IF DOMAIN b.form # {} THEN "form"
    ELSE IF b.files.len # 0 THEN "multipart"
    ELSE "none"

\* the if / else-if chain that picks the body: c.body, else the files, else
\* the form, else reader stays nil
BodyBranch(b) ==
    IF b.body # NilBody THEN "raw"
    ELSE IF b.files.len # 0 THEN "multipart"
    ELSE IF DOMAIN b.form # {} THEN "form"
    ELSE "none"

\* What ParseRequest on builder c returns and what it leaves in c.header,
\* when `range c.form` visits the keys in the given order.
ParseResult(c, order) ==
    LET b == heap[c]
        fs == SliceElems(arrays, b.files)
        h2 == HeaderAfterAuth(b)
        target == b.url \o b.path
        rawQuery == IF DOMAIN b.query # {} THEN Encode(b.query) ELSE <<>>
        branch == BodyBranch(b)
        data == CASE branch = "raw" -> b.body[1]
                  [] branch = "multipart" -> FileParts(fs) \o FieldParts(b.form, order, 1)
                  [] branch = "form" -> Encode(b.form)
                  [] OTHER -> <<>>
        h3 == CASE branch = "multipart" -> HeaderSet(h2, ContentTypeKey, "multipart/form-data; boundary")
                [] branch = "form" -> HeaderSet(h2, ContentTypeKey, "application/x-www-form-urlencoded")
                [] OTHER -> h2
    IN  IF ~URLParseOK(target)
        THEN [err |-> "parse url", request |-> NoRequest, header |-> h2]
        ELSE IF MultipleContentType(b)
        THEN [err |-> "unirest-go: can send this request with multiple content type",
              request |-> NoRequest, header |-> h2]
        ELSE [err |-> "nil",
              request |-> [Method |-> b.method, Header |-> h3, URL |-> target,
                           RawQuery |-> rawQuery,
                           Body |-> [kind |-> branch, data |-> data],
                           ContentLength |-> IF branch = "none" THEN 0
                                             ELSE ReaderLen(NewReader(data)),
                           GetBody |-> branch # "none",
                           reader |-> NewReader(data),
                           snapshot |-> NewReader(data),
                           headerOf |-> c],
              header |-> h3]

ParseRequest(c) ==
    \E order \in KeyOrders(heap[c].form) :
        LET r == ParseResult(c, order) IN
        /\ req' = [err |-> r.err, request |-> r.request]
        /\ heap' = [heap EXCEPT ![c].header = r.header]
        /\ ghost' = [ghost EXCEPT ![c].hdrOnlyAdds = FALSE]
        /\ Finish("ParseRequest", c, 0, <<>>)
        /\ UNCHANGED <<arrays, resps, out, calls>>

-----------------------------------------------------------------------------
(* Send and the Response wrapper                                           *)

\* Send: ParseRequest, then httpclient.Do unless ParseRequest failed.  The
\* transport is outside the program: it answers or fails.
Send(c) ==
    \E order \in KeyOrders(heap[c].form), answered \in BOOLEAN :
        LET r == ParseResult(c, order) IN
        /\ heap' = [heap EXCEPT ![c].header = r.header]
        /\ ghost' = [ghost EXCEPT ![c].hdrOnlyAdds = FALSE]
        /\ IF r.err # "nil"
           THEN /\ resps' = Append(resps, [Err |-> r.err, Response |-> "nil"])
                /\ calls' = calls
           ELSE /\ resps' = Append(resps, IF answered
                                          THEN [Err |-> "nil", Response |-> "open"]
                                          ELSE [Err |-> "transport", Response |-> "nil"])
                /\ calls' = calls + 1
        /\ Finish("Send", c, Len(resps) + 1, r.err)
        /\ UNCHANGED <<arrays, req, out>>

\* AsBytes on wrapper r: what it returns and what it leaves of the body
\* stream; ioutil.ReadAll succeeds or fails on an open stream and fails on
\* one that was closed by an earlier read.
BytesResult(r, readOK) ==
    IF resps[r].Err # "nil" THEN [val |-> "nil", err |-> resps[r].Err]
    ELSE IF resps[r].Response = "nil" THEN [val |-> "nil", err |-> "the request is not sent"]
    ELSE IF resps[r].Response = "open" /\ readOK THEN [val |-> "payload", err |-> "nil"]
    ELSE [val |-> "nil", err |-> "read"]

Closed(r) ==
    IF resps[r].Err = "nil" /\ resps[r].Response # "nil"
    THEN [resps EXCEPT ![r].Response = "closed"]
    ELSE resps

AsBytes(r) ==
    \E readOK \in BOOLEAN :
        /\ out' = [kind |-> "bytes"] @@ BytesResult(r, readOK)
        /\ resps' = Closed(r)
        /\ last' = [op |-> "AsBytes", recv |-> r, res |-> 0, arg |-> <<>>]
        /\ pre' = heap
        /\ preArrays' = arrays
        /\ steps' = steps + 1
        /\ UNCHANGED <<heap, arrays, ghost, req, calls>>

\* AsString: AsBytes, with "" in place of nil bytes on error and the bytes
\* reinterpreted as text (b2s) otherwise
AsString(r) ==
    \E readOK \in BOOLEAN :
        LET b == BytesResult(r, readOK) IN
        /\ out' = [kind |-> "string",
                   val |-> IF b.err # "nil" THEN "" ELSE b.val,
                   err |-> b.err]
        /\ resps' = Closed(r)
        /\ last' = [op |-> "AsString", recv |-> r, res |-> 0, arg |-> <<>>]
        /\ pre' = heap
        /\ preArrays' = arrays
        /\ steps' = steps + 1
        /\ UNCHANGED <<heap, arrays, ghost, req, calls>>

-----------------------------------------------------------------------------
(* The request's body stream, as the transport uses it.                    *)

\* req.Body.Read of n bytes: they come from the reader behind req.Body,
\* which moves on
ReadBody(n) ==
    /\ req.err = "nil"
    /\ req.request.GetBody
    /\ n <= ReaderLen(req.request.reader)
    /\ out' = [kind |-> "read",
               val |-> SubSeq(req.request.reader.s, req.request.reader.i + 1,
                              req.request.reader.i + n),
               err |-> "nil"]
    /\ req' = [req EXCEPT !.request.reader.i = @ + n]
    /\ last' = [op |-> "ReadBody", recv |-> 0, res |-> 0, arg |-> n]
    /\ pre' = heap
    /\ preArrays' = arrays
    /\ steps' = steps + 1
    /\ UNCHANGED <<heap, arrays, ghost, resps, calls>>

\* req.GetBody(): `r := snapshot` copies the captured reader, and the
\* stream returned reads from the copy; out is what is left to read from it
GetBody ==
    /\ req.err = "nil"
    /\ req.request.GetBody
    /\ out' = [kind |-> "replay",
               val |-> SubSeq(req.request.snapshot.s, req.request.snapshot.i + 1,
                              Len(req.request.snapshot.s)),
               err |-> "nil"]
    /\ last' = [op |-> "GetBody", recv |-> 0, res |-> 0, arg |-> <<>>]
    /\ pre' = heap
    /\ preArrays' = arrays
    /\ steps' = steps + 1
    /\ UNCHANGED <<heap, arrays, ghost, req, resps, calls>>

-----------------------------------------------------------------------------
(* Initial state: one builder, fresh from New().                           *)

Init ==
    /\ heap = <<New>>
    /\ arrays = <<>>
    /\ ghost = <<NewGhost>>
    /\ req = [err |-> "nil", request |-> NoRequest]
    /\ resps = <<>>
    /\ out = [kind |-> "none", val |-> "nil", err |-> "nil"]
    /\ calls = 0
    /\ last = [op |-> "New", recv |-> 0, res |-> 1, arg |-> <<>>]
    /\ pre = <<>>
    /\ preArrays = <<>>
    /\ steps = 0

-----------------------------------------------------------------------------
(* Spec: every operation, on small inputs.                                 *)

\* a call on c that clones needs room for the clone
Room(c, maxObj) == heap[c].makeCopy => Len(heap) < maxObj

File1 == [key |-> "file1", filename |-> "file1.txt", content |-> "file1"]
File2 == [key |-> "file1", filename |-> "file11.txt", content |-> "file11"]

URLs == {<<"p", "/">>}
Paths == {<<>>, <<"p", "/">>}
QueryKeys == {"k1"}
HeaderKeys == {<<"q">>}
FormKeys == {"k1"}
FieldValues == {"1"}
Files == {File1}
Credentials == {<<"u", "p">>}
Bodies == {<< <<"x">> >>}

Next ==
    \/ \E c \in Objs, b \in BOOLEAN : steps < MaxSteps /\ Len(heap) < MaxObj /\ AutoClone(c, b)
    \/ \E c \in Objs : steps < MaxSteps /\ Len(heap) < MaxObj /\ CloneCall(c)
    \/ \E c \in Objs, u \in URLs : steps < MaxSteps /\ Room(c, MaxObj) /\ SetURL(c, u)
    \/ \E c \in Objs, p \in Paths : steps < MaxSteps /\ Room(c, MaxObj) /\ AppendPath(c, p)
    \/ \E c \in Objs, k \in QueryKeys, v \in FieldValues : steps < MaxSteps /\ Room(c, MaxObj) /\ AddQuery(c, k, v)
    \/ \E c \in Objs, k \in HeaderKeys, v \in FieldValues : steps < MaxSteps /\ Room(c, MaxObj) /\ AddHeader(c, k, v)
    \/ \E c \in Objs, k \in FormKeys, v \in FieldValues : steps < MaxSteps /\ Room(c, MaxObj) /\ AddFormField(c, k, v)
    \/ \E c \in Objs, f \in Files : steps < MaxSteps /\ Room(c, MaxObj) /\ AddFile(c, f)
    \/ \E c \in Objs, a \in Credentials : steps < MaxSteps /\ Room(c, MaxObj) /\ SetBasicAuth(c, a[1], a[2])
    \/ \E c \in Objs, b \in Bodies : steps < MaxSteps /\ Room(c, MaxObj) /\ SetJSONBody(c, b)
    \/ \E c \in Objs, b \in Bodies : steps < MaxSteps /\ Room(c, MaxObj) /\ SetRawBody(c, b)
    \/ \E c \in Objs : steps < MaxSteps /\ Room(c, MaxObj) /\ Get(c)
    \/ \E c \in Objs : steps < MaxSteps /\ Room(c, MaxObj) /\ Post(c)
    \/ \E c \in Objs : steps < MaxSteps /\ ParseRequest(c)
    \/ \E c \in Objs : steps < MaxSteps /\ Send(c)
    \/ \E r \in 1..Len(resps) : steps < MaxSteps /\ AsBytes(r)
    \/ \E r \in 1..Len(resps) : steps < MaxSteps /\ AsString(r)

Spec == Init /\ [][Next]_vars

-----------------------------------------------------------------------------
(* SpecFiles: attachments and clones, deep enough for a backing array with *)
(* spare capacity to be shared.                                            *)

NextFiles ==
    \/ \E c \in Objs, b \in BOOLEAN : steps < MaxStepsFiles /\ Len(heap) < MaxObjFiles /\ AutoClone(c, b)
    \/ \E c \in Objs, f \in {File1, File2} : steps < MaxStepsFiles /\ Room(c, MaxObjFiles) /\ AddFile(c, f)

SpecFiles == Init /\ [][NextFiles]_vars

-----------------------------------------------------------------------------
(* SpecAdd: the three multi-valued maps, with repeated keys, distinct      *)
(* values and header names that differ in case only.                       *)

AddKeys == {"k1", "k2"}
AddHeaderKeys == {<<"q">>, <<"Q">>}
AddValues == {"1", "2"}

NextAdd ==
    \/ \E c \in Objs, b \in BOOLEAN : steps < MaxStepsAdd /\ Len(heap) < MaxObjAdd /\ AutoClone(c, b)
    \/ \E c \in Objs, k \in AddKeys, v \in AddValues : steps < MaxStepsAdd /\ Room(c, MaxObjAdd) /\ AddQuery(c, k, v)
    \/ \E c \in Objs, k \in AddHeaderKeys, v \in AddValues : steps < MaxStepsAdd /\ Room(c, MaxObjAdd) /\ AddHeader(c, k, v)
    \/ \E c \in Objs, k \in AddKeys, v \in AddValues : steps < MaxStepsAdd /\ Room(c, MaxObjAdd) /\ AddFormField(c, k, v)

SpecAdd == Init /\ [][NextAdd]_vars

-----------------------------------------------------------------------------
(* SpecPath: SetURL and AppendPath on every text of '/' and 'p' up to      *)
(* MaxSegLen characters.                                                   *)

Texts(n) == UNION {[1..k -> {"p", "/"}] : k \in 0..n}

NextPath ==
    \/ \E c \in Objs, b \in BOOLEAN : steps < MaxStepsPath /\ Len(heap) < MaxObjPath /\ AutoClone(c, b)
    \/ \E c \in Objs, u \in Texts(MaxSegLen) : steps < MaxStepsPath /\ Room(c, MaxObjPath) /\ SetURL(c, u)
    \/ \E c \in Objs, p \in Texts(MaxSegLen) : steps < MaxStepsPath /\ Room(c, MaxObjPath) /\ AppendPath(c, p)

SpecPath == Init /\ [][NextPath]_vars

-----------------------------------------------------------------------------
(* SpecBody: bodies (nil and non-nil) against form fields, files, a        *)
(* Content-Type header and a url that does not parse, through to the       *)
(* response wrapper.                                                       *)

BodyURLs == {<<"%">>}
BodyHeaderKeys == {<<"c","o","n","t","e","n","t","-","t","y","p","e">>}
JSONBodies == {<< <<"j">> >>}
RawBodies == {NilBody, << <<"x">> >>}

NextBody ==
    \/ \E c \in Objs : steps < MaxStepsBody /\ Len(heap) < MaxObjBody /\ AutoClone(c, FALSE)
    \/ \E c \in Objs, u \in BodyURLs : steps < MaxStepsBody /\ Room(c, MaxObjBody) /\ SetURL(c, u)
    \/ \E c \in Objs, k \in BodyHeaderKeys : steps < MaxStepsBody /\ Room(c, MaxObjBody) /\ AddHeader(c, k, "t")
    \/ \E c \in Objs : steps < MaxStepsBody /\ Room(c, MaxObjBody) /\ AddFormField(c, "k1", "1")
    \/ \E c \in Objs : steps < MaxStepsBody /\ Room(c, MaxObjBody) /\ AddFile(c, File1)
    \/ \E c \in Objs, b \in JSONBodies : steps < MaxStepsBody /\ Room(c, MaxObjBody) /\ SetJSONBody(c, b)
    \/ \E c \in Objs, b \in RawBodies : steps < MaxStepsBody /\ Room(c, MaxObjBody) /\ SetRawBody(c, b)
    \/ \E c \in Objs : steps < MaxStepsBody /\ ParseRequest(c)
    \/ \E c \in Objs : steps < MaxStepsBody /\ Send(c)
    \/ \E r \in 1..Len(resps) : steps < MaxStepsBody /\ AsBytes(r)
    \/ \E r \in 1..Len(resps) : steps < MaxStepsBody /\ AsString(r)

SpecBody == Init /\ [][NextBody]_vars

-----------------------------------------------------------------------------
(* SpecRequest: what ParseRequest builds from bodies (nil, empty, two      *)
(* bytes), files and form fields under two keys, and how the body stream   *)
(* of the request reads and replays.                                       *)

RequestBodies == {NilBody, << <<>> >>, << <<"x", "y">> >>}

NextRequest ==
    \/ \E c \in Objs, k \in AddKeys, v \in AddValues : steps < MaxStepsRequest /\ Room(c, MaxObjRequest) /\ AddFormField(c, k, v)
    \/ \E c \in Objs, f \in {File1, File2} : steps < MaxStepsRequest /\ Room(c, MaxObjRequest) /\ AddFile(c, f)
    \/ \E c \in Objs : steps < MaxStepsRequest /\ Room(c, MaxObjRequest) /\ SetJSONBody(c, << <<"j">> >>)
    \/ \E c \in Objs, b \in RequestBodies : steps < MaxStepsRequest /\ Room(c, MaxObjRequest) /\ SetRawBody(c, b)
    \/ \E c \in Objs : steps < MaxStepsRequest /\ ParseRequest(c)
    \/ \E n \in 1..2 : steps < MaxStepsRequest /\ ReadBody(n)
    \/ steps < MaxStepsRequest /\ GetBody

SpecRequest == Init /\ [][NextRequest]_vars

-----------------------------------------------------------------------------
(* Properties.  `last` names the call that led to the current state, `pre` *)
(* and `preArrays` hold the heap and the backing arrays before it.         *)

Mutators == {"SetURL", "AppendPath", "AddQuery", "AddHeader", "AddFormField",
             "AddFile", "SetBasicAuth", "SetJSONBody", "SetRawBody", "Get", "Post"}

Before(c) == View(pre, preArrays, c)
After(c) == View(heap, arrays, c)

\* the change a mutator call makes, read off the builder it returned
Carries(op, arg, before, after) ==
    CASE op = "SetURL" -> after.url = TrimRight(arg)
      [] op = "AppendPath" ->
            after.path = before.path \o (IF arg = <<>> THEN <<>> ELSE Segment(arg))
      [] op = "AddQuery" ->
            /\ arg[1] \in DOMAIN after.query
            /\ after.query[arg[1]] = Append(HeaderValues(before.query, arg[1]), arg[2])
      [] op = "AddHeader" ->
            /\ CanonicalKey(arg[1]) \in DOMAIN after.header
            /\ after.header[CanonicalKey(arg[1])]
                  = Append(HeaderValues(before.header, CanonicalKey(arg[1])), arg[2])
      [] op = "AddFormField" ->
            /\ arg[1] \in DOMAIN after.form
            /\ after.form[arg[1]] = Append(HeaderValues(before.form, arg[1]), arg[2])
      [] op = "AddFile" -> after.files = Append(before.files, arg)
      [] op = "SetBasicAuth" -> after.basicAuth = arg
      [] op = "SetJSONBody" -> after.body = arg
      [] op = "SetRawBody" -> after.body = arg
      [] op = "Get" -> after.method = "GET"
      [] op = "Post" -> after.method = "POST"

\* C1: a mutator called on a builder whose auto-clone flag is true returns
\* a new builder that carries the change; every field read through the
\* receiver is what it was before the call.
AutoCloneLeavesReceiver ==
    (last.op \in Mutators /\ pre[last.recv].makeCopy) =>
        /\ last.res # last.recv
        /\ last.res \notin DOMAIN pre
        /\ last.res \in DOMAIN heap
        /\ After(last.recv) = Before(last.recv)
        /\ Carries(last.op, last.arg, Before(last.recv), After(last.res))

\* C1 happens: AddQuery on an auto-clone builder that already has a value
\* under the key.
AutoCloneWitness ==
    /\ last.op = "AddQuery"
    /\ pre[last.recv].makeCopy
    /\ last.arg[1] \in DOMAIN pre[last.recv].query

\* C2: a mutator called on a builder whose flag is false returns that same
\* builder, changed in place, with the flag still false; nothing is
\* allocated.
InPlaceReturnsReceiver ==
    (last.op \in Mutators /\ ~pre[last.recv].makeCopy) =>
        /\ last.res = last.recv
        /\ Len(heap) = Len(pre)
        /\ ~heap[last.recv].makeCopy
        /\ Carries(last.op, last.arg, Before(last.recv), After(last.recv))

\* C2 happens: a second in-place call on a builder returned by
\* AutoClone(false).
InPlaceWitness ==
    /\ last.op = "AddHeader"
    /\ ~pre[last.recv].makeCopy
    /\ ghost[last.recv].via = "AutoClone"
    /\ pre[last.recv].method = "POST"

\* C3 (as claimed): AutoClone(x) returns a new builder with flag x and
\* leaves the receiver as it was, and no later mutator call on the builder
\* it returned changes anything read through the receiver; a later call on
\* a Clone() result leaves the receiver's three maps alone.
CloneIsIndependent ==
    /\ last.op = "AutoClone" =>
          /\ last.res \notin DOMAIN pre
          /\ heap[last.res].makeCopy = last.arg
          /\ After(last.recv) = Before(last.recv)
    /\ (last.op \in Mutators /\ ghost[last.recv].via = "AutoClone") =>
          After(ghost[last.recv].from) = Before(ghost[last.recv].from)
    /\ (last.op \in Mutators /\ ghost[last.recv].via = "Clone") =>
          /\ After(ghost[last.recv].from).query = Before(ghost[last.recv].from).query
          /\ After(ghost[last.recv].from).header = Before(ghost[last.recv].from).header
          /\ After(ghost[last.recv].from).form = Before(ghost[last.recv].from).form


\* the values the calls in log added to map `which` under exactly key k
Added(log, which, k) ==
    LET sel == SelectSeq(log, LAMBDA e : e[1] = which /\ e[2] = k)
    IN  [i \in 1..Len(sel) |-> sel[i][3]]

\* the values the AddHeader calls in log added under a name whose
\* canonical form is k
AddedCanonical(log, k) ==
    LET sel == SelectSeq(log, LAMBDA e : e[1] = "header" /\ CanonicalKey(e[2]) = k)
    IN  [i \in 1..Len(sel) |-> sel[i][3]]

QueryAndFormAccumulate(o) ==
    /\ \A k \in AddKeys \cup DOMAIN heap[o].query :
          HeaderValues(heap[o].query, k) = Added(ghost[o].adds, "query", k)
    /\ \A k \in AddKeys \cup DOMAIN heap[o].form :
          HeaderValues(heap[o].form, k) = Added(ghost[o].adds, "form", k)

\* C4 (as claimed): along a chain of AddQuery/AddHeader/AddFormField calls,
\* the list stored under each key of each map is the values added for that
\* very key, in call order.
ValuesAccumulateByKey ==
    \A o \in Objs :
        /\ QueryAndFormAccumulate(o)
        /\ ghost[o].hdrOnlyAdds =>
              \A k \in AddHeaderKeys \cup DOMAIN heap[o].header :
                  HeaderValues(heap[o].header, k) = Added(ghost[o].adds, "header", k)

\* C4 (amended): the same for query and form; in the header map the list
\* stored under a canonical name is the values added under any spelling of
\* that name, in call order, and only canonical names are keys.
ValuesAccumulate ==
    \A o \in Objs :
        /\ QueryAndFormAccumulate(o)
        /\ ghost[o].hdrOnlyAdds =>
              /\ \A k \in AddHeaderKeys \cup DOMAIN heap[o].header :
                    HeaderValues(heap[o].header, CanonicalKey(k))
                        = AddedCanonical(ghost[o].adds, CanonicalKey(k))
              /\ \A k \in DOMAIN heap[o].header : CanonicalKey(k) = k

\* C4 happens: an in-place builder holding two different values, in the
\* order they were added, under one canonical header name.
ValuesAccumulateWitness ==
    \E o \in Objs :
        /\ ~heap[o].makeCopy
        /\ <<"Q">> \in DOMAIN heap[o].header
        /\ Len(heap[o].header[<<"Q">>]) = 2
        /\ heap[o].header[<<"Q">>][1] # heap[o].header[<<"Q">>][2]

RECURSIVE TrimLeft(_)
TrimLeft(s) == IF s # <<>> /\ s[1] = "/" THEN TrimLeft(Tail(s)) ELSE s

\* C5 (as claimed): SetURL drops the trailing slashes of the base; an
\* AppendPath argument that is empty once its leading and trailing slashes
\* are dropped adds nothing, any other adds one '/' and the argument
\* without them; the target url+path never ends in '/'.
SingleSlashJoin ==
    /\ last.op = "SetURL" => heap[last.res].url = TrimRight(last.arg)
    /\ last.op = "AppendPath" =>
          heap[last.res].path =
              pre[last.recv].path \o
              (IF TrimLeft(TrimRight(last.arg)) = <<>> THEN <<>>
               ELSE <<"/">> \o TrimLeft(TrimRight(last.arg)))
    /\ \A o \in Objs :
          LET target == heap[o].url \o heap[o].path
          IN  target = <<>> \/ target[Len(target)] # "/"

ConflictError == "unirest-go: can send this request with multiple content type"

\* a non-nil body together with a form field or a file
Conflicting(b) == b.body # NilBody /\ (b.files.len > 0 \/ DOMAIN b.form # {})

\* the number of wrappers whose Send got as far as the transport
Transported == Cardinality({r \in 1..Len(resps) : resps[r].Err \in {"nil", "transport"}})

\* what AsBytes/AsString do with a wrapper that carries a construction error
WrapperReturnsError ==
    (last.op \in {"AsBytes", "AsString"} /\ resps[last.recv].Err \in {ConflictError, "parse url"}) =>
        /\ out.err = resps[last.recv].Err
        /\ out.val = (IF last.op = "AsBytes" THEN "nil" ELSE "")

\* C6 (as claimed): with a body and a form field or file, ParseRequest
\* returns the multiple-content-type error and no request, Send returns a
\* wrapper carrying that error without calling the transport, and
\* AsBytes/AsString return the wrapper's error.
ConflictAlwaysReported ==
    /\ (last.op = "ParseRequest" /\ Conflicting(pre[last.recv])) =>
          /\ req.err = ConflictError
          /\ req.request = NoRequest
    /\ (last.op = "Send" /\ Conflicting(pre[last.recv])) =>
          resps[last.res] = [Err |-> ConflictError, Response |-> "nil"]
    /\ calls = Transported
    /\ WrapperReturnsError

\* the error ParseRequest reports for a conflicting builder: url.Parse
\* comes first
ErrorOf(b) == IF URLParseOK(b.url \o b.path) THEN ConflictError ELSE "parse url"

\* C6 (amended): with a non-nil body and a form field or file, ParseRequest
\* returns an error and no request - the url parse error if url+path does
\* not parse, the multiple-content-type error otherwise - Send returns a
\* wrapper carrying that error without calling the transport, and
\* AsBytes/AsString return the wrapper's error.
ConflictReported ==
    /\ (last.op = "ParseRequest" /\ Conflicting(pre[last.recv])) =>
          /\ req.err = ErrorOf(pre[last.recv])
          /\ req.request = NoRequest
    /\ (last.op = "Send" /\ Conflicting(pre[last.recv])) =>
          resps[last.res] = [Err |-> ErrorOf(pre[last.recv]), Response |-> "nil"]
    /\ calls = Transported
    /\ WrapperReturnsError

\* C6 happens: AsBytes on the wrapper of a Send that hit the conflict.
ConflictWitness ==
    /\ last.op = "AsBytes"
    /\ resps[last.recv].Err = ConflictError
    /\ out.err = ConflictError
    /\ calls = 0

\* what SetJSONBody and SetRawBody leave in the builder they return
BodyCallSetsType ==
    /\ last.op = "SetJSONBody" =>
          /\ heap[last.res].body = last.arg
          /\ HeaderValues(heap[last.res].header, ContentTypeKey) = <<"application/json">>
    /\ last.op = "SetRawBody" =>
          /\ heap[last.res].body = last.arg
          /\ ContentTypeKey \notin DOMAIN heap[last.res].header

\* the Content-Type the last body call of the chain stands for
TypeByLastBody(o) == IF ghost[o].lastBody = "json" THEN <<"application/json">> ELSE <<>>

\* ParseRequest succeeded on a builder whose Content-Type was last touched
\* by SetJSONBody or SetRawBody
ParsedAfterBodyCall ==
    /\ last.op = "ParseRequest"
    /\ req.err = "nil"
    /\ ghost[last.recv].lastBody # "none"
    /\ ~ghost[last.recv].typeSince

\* C7 (as claimed): the last of SetJSONBody/SetRawBody fixes the body bytes
\* and the Content-Type (application/json alone, or none), and the request
\* ParseRequest builds carries that Content-Type.
LastBodyCallDecidesType ==
    /\ BodyCallSetsType
    /\ ParsedAfterBodyCall =>
          HeaderValues(req.request.Header, ContentTypeKey) = TypeByLastBody(last.recv)

\* C7 (amended): the same, except that a request built from nil body bytes
\* and a form field or file carries the form or multipart Content-Type.
LastBodyCallDecidesTypeOfBody ==
    /\ BodyCallSetsType
    /\ (/\ ParsedAfterBodyCall
        /\ ~(pre[last.recv].body = NilBody
             /\ (pre[last.recv].files.len > 0 \/ DOMAIN pre[last.recv].form # {}))) =>
          HeaderValues(req.request.Header, ContentTypeKey) = TypeByLastBody(last.recv)

\* C7 happens: SetRawBody on a builder that carries a Content-Type, and a
\* request built from a raw body.
RawBodyDropsTypeWitness ==
    /\ last.op = "SetRawBody"
    /\ ContentTypeKey \in DOMAIN pre[last.recv].header
    /\ last.arg # NilBody

\* C8 (as claimed): a mutator call on an auto-clone builder changes nothing
\* that is read through any builder that existed before the call, the
\* receiver and the results of earlier calls on it included; AddFile gives
\* the receiver's files followed by the new attachment.
TemplateBranchesIndependent ==
    (last.op \in Mutators /\ pre[last.recv].makeCopy) =>
        /\ \A o \in DOMAIN pre : After(o) = Before(o)
        /\ last.op = "AddFile" =>
              After(last.res).files = Append(Before(last.recv).files, last.arg)

\* C9: the method is GET or POST and is the one the last method-assigning
\* call on the chain stands for; Get and Post change the method only; the
\* five calls that do not assign the method leave it alone.
MethodByLastCall ==
    /\ \A o \in Objs :
          /\ heap[o].method \in {"GET", "POST"}
          /\ heap[o].method =
                (IF ghost[o].lastMeth \in {"none", "Get"} THEN "GET" ELSE "POST")
    /\ last.op \in {"Get", "Post"} =>
          [After(last.res) EXCEPT !.method = ""] = [Before(last.recv) EXCEPT !.method = ""]
    /\ last.op \in {"SetURL", "AppendPath", "AddQuery", "AddHeader", "SetBasicAuth"} =>
          heap[last.res].method = pre[last.recv].method

\* C9 happens: Get() on a builder that a body call had switched to POST.
MethodWitness ==
    /\ last.op = "Get"
    /\ pre[last.recv].method = "POST"
    /\ pre[last.recv].body # NilBody
    /\ heap[last.res].method = "GET"

\* C10 (as claimed): ParseRequest and Send leave every field of the builder
\* they are called on as it was.
MaterializeLeavesBuilder ==
    last.op \in {"ParseRequest", "Send"} => After(last.recv) = Before(last.recv)

-----------------------------------------------------------------------------
(* The body of the request that ParseRequest built.                         *)

\* the builder as ParseRequest found it, and its files in attachment order
Parsed == pre[last.recv]
ParsedFiles == SliceElems(preArrays, Parsed.files)

\* the parts of a multipart body that follow the first n
PartsAfter(data, n) == SubSeq(data, n + 1, Len(data))

\* the contents of the field parts written under key k, in body order
FieldContents(parts, k) ==
    LET IsK(p) == p.key = k
        ps == SelectSeq(parts, IsK)
    IN  [j \in 1..Len(ps) |-> ps[j].content]

\* every file part in attachment order, then every form field and nothing else
FilesThenFields(data) ==
    /\ Len(data) >= Len(ParsedFiles)
    /\ \A j \in 1..Len(ParsedFiles) :
          data[j] = [part |-> "file", key |-> ParsedFiles[j].key,
                     filename |-> ParsedFiles[j].filename,
                     content |-> ParsedFiles[j].content]
    /\ \A j \in (Len(ParsedFiles) + 1)..Len(data) :
          data[j].part = "field" /\ data[j].key \in DOMAIN Parsed.form
    /\ \A k \in DOMAIN Parsed.form :
          FieldContents(PartsAfter(data, Len(ParsedFiles)), k) = Parsed.form[k]

\* the branch taken, by the priority body, files, form, none
BranchTaken ==
    LET r == req.request
    IN  IF Parsed.body # NilBody
        THEN r.Body.kind = "raw" /\ r.Body.data = Parsed.body[1]
        ELSE IF Parsed.files.len # 0
        THEN /\ r.Body.kind = "multipart"
             /\ FilesThenFields(r.Body.data)
             /\ HeaderValues(r.Header, ContentTypeKey) = <<"multipart/form-data; boundary">>
        ELSE IF DOMAIN Parsed.form # {}
        THEN /\ r.Body.kind = "form"
             /\ r.Body.data = Encode(Parsed.form)
             /\ HeaderValues(r.Header, ContentTypeKey) = <<"application/x-www-form-urlencoded">>
        ELSE r.Body.kind = "none"

\* C11: when ParseRequest succeeds the request's body is the raw bytes if
\* the builder's body is set, else (with a file attached) the multipart
\* body of every file part in attachment order followed by every form
\* field under the multipart Content-Type, else (with a form field) the
\* URL-encoded form under application/x-www-form-urlencoded, else none;
\* the request has a body, a content length equal to the body's length and
\* a GetBody supplier exactly when one of the first three was taken, and
\* GetBody yields the whole body however far req.Body has been read.
BodyBranchByPriority ==
    /\ (last.op = "ParseRequest" /\ req.err = "nil") =>
          /\ BranchTaken
          /\ req.request.GetBody <=> req.request.Body.kind # "none"
          /\ req.request.GetBody =>
                /\ req.request.reader = NewReader(req.request.Body.data)
                /\ req.request.ContentLength = Len(req.request.Body.data)
          /\ ~req.request.GetBody => req.request.ContentLength = 0
    /\ last.op = "GetBody" => out.val = req.request.Body.data

\* GetBody was called on a multipart request with a file and a form field
\* after part of req.Body had been read
ReplayWitness ==
    /\ last.op = "GetBody"
    /\ req.request.Body.kind = "multipart"
    /\ \E j \in DOMAIN req.request.Body.data : req.request.Body.data[j].part = "field"
    /\ req.request.reader.i > 0
    /\ out.val = req.request.Body.data


====
